---- MODULE Spec2Model ----
(***************************************************************************)
(* Model of the gmail-bridge server (src/unnamed/part_000, the revision    *)
(* that Node can load; src/app.js declares `let savedTokens` twice and is  *)
(* rejected at parse time, so none of its handlers ever runs).             *)
(*                                                                         *)
(* The state is the process's environment and token state, the remote      *)
(* mailbox (messages, labels, drafts) and, per in-flight /run-sweep        *)
(* request, the handler's locals and the remote call it is suspended on.   *)
(* Every `await` of /run-sweep is one action: the call returns (or fails)  *)
(* and the handler runs on to its next await or to its response.           *)
(* Strings the code inspects character by character (the max parameter,    *)
(* the decision text) are sequences of one-character strings.              *)
(***************************************************************************)
EXTENDS Integers, Sequences, FiniteSets, TLC

\* ---------------------------------------------------------------- bounds
NumMsgs == 2        \* messages that can arrive in the mailbox
MaxSweeps == 2      \* /run-sweep invocations in one behaviour
MaxManual == 1      \* /draft and /reply-draft drafts in one behaviour

\* The messages that arrive while the server runs.
Arriving == 1..NumMsgs
Slots == {1, 2}     \* request slots: at most two /run-sweep requests in flight

\* ------------------------------------------------------------ JS values
Undefined == "<undefined>"
Null == "<null>"
\* undefined where the value would otherwise be a sequence of characters
UndefSeq == <<Undefined>>

\* A JS number: an integer or NaN.
Num(k) == [nan |-> FALSE, n |-> k]
NaN == [nan |-> TRUE, n |-> 0]

\* `${v}` in a template literal.
Str(v) == IF v = Undefined THEN "undefined" ELSE v

\* Truthiness of a value that is undefined, null or a string.
Truthy(v) == v \notin {Undefined, Null, ""}
\* Truthiness of a value that is undefined or a sequence of characters.
TruthySeq(s) == s \notin {UndefSeq, <<>>}

WS == {" ", "\n", "\t", "\r"}
Digits == {"0", "1", "2", "3", "4", "5", "6", "7", "8", "9"}
DigitVal(c) ==
  CASE c = "0" -> 0 [] c = "1" -> 1 [] c = "2" -> 2 [] c = "3" -> 3 [] c = "4" -> 4
    [] c = "5" -> 5 [] c = "6" -> 6 [] c = "7" -> 7 [] c = "8" -> 8 [] c = "9" -> 9

RECURSIVE DropWS(_)
DropWS(s) == IF s # <<>> /\ Head(s) \in WS THEN DropWS(Tail(s)) ELSE s

RECURSIVE DropWSEnd(_)
DropWSEnd(s) ==
  IF s # <<>> /\ s[Len(s)] \in WS THEN DropWSEnd(SubSeq(s, 1, Len(s) - 1)) ELSE s

\* String.prototype.trim
Trim(s) == DropWSEnd(DropWS(s))

\* The value of the longest prefix of decimal digits, acc the value so far.
RECURSIVE DigitsValue(_, _)
DigitsValue(s, acc) ==
  IF s # <<>> /\ Head(s) \in Digits
    THEN DigitsValue(Tail(s), 10 * acc + DigitVal(Head(s)))
    ELSE acc

\* parseInt(s, 10): leading whitespace, an optional sign, then digits; NaN when
\* no digit follows.
ParseInt(s) ==
  LET t == DropWS(s)
      neg == t # <<>> /\ Head(t) = "-"
      u == IF t # <<>> /\ Head(t) \in {"-", "+"} THEN Tail(t) ELSE t
  IN IF u = <<>> \/ Head(u) \notin Digits
       THEN NaN
       ELSE Num(IF neg THEN 0 - DigitsValue(u, 0) ELSE DigitsValue(u, 0))

\* Math.min(a, b)
MathMin(a, b) ==
  IF a.nan \/ b.nan THEN NaN ELSE IF a.n <= b.n THEN a ELSE b


\* The string of a sequence of characters.
RECURSIVE Join(_)
Join(cs) == IF cs = <<>> THEN "" ELSE Head(cs) \o Join(Tail(cs))

\* The subjects the composing is tried on, as characters: every text of up
\* to MaxSubjectLen characters over an alphabet that spells "re:" in both
\* cases, and each of these behind the prefix the composing adds.
MaxSubjectLen == 3
SubjectAlphabet == {"R", "r", "E", "e", ":", " ", "x"}
RePrefix == <<"R", "e", ":", " ">>
ShortTexts ==
  UNION {[1..n -> SubjectAlphabet] : n \in 0..MaxSubjectLen}
SubjectTexts == ShortTexts \cup {RePrefix \o cs : cs \in ShortTexts}
TextTable == {<<Join(cs), cs>> : cs \in SubjectTexts}

\* The characters of the strings the model uses.
Chars(str) ==
  CASE str = "" -> <<>>
    [] str = "10" -> <<"1", "0">>
    [] str = "Hi" -> <<"H", "i">>
    [] str = "Re: Hi" -> <<"R", "e", ":", " ", "H", "i">>
    [] str = "Your receipt" -> <<"Y", "o", "u", "r", " ", "r", "e", "c", "e", "i", "p", "t">>
    [] str = "NO_REPLY" -> <<"N", "O", "_", "R", "E", "P", "L", "Y">>
    [] OTHER -> (CHOOSE pr \in TextTable : pr[1] = str)[2]

\* -------------------------------------------------------------- process
\* env: process.env, each variable a string or undefined (GOOGLE_REFRESH_TOKEN
\* is read once, at start, into savedTokens); savedTokens: the token state,
\* of which only refresh_token is ever read.
VARIABLES env, savedTokens
\* ------------------------------------------------------- mail provider
\* mail[m]: the message's shape ("none": no such message), its label ids
\* and its headers;
\* labels: the user labels, in the order the provider lists them;
\* drafts: the drafts the provider holds.
VARIABLES mail, labels, drafts
\* ------------------------------------------------------------- requests
\* sw[p]: the /run-sweep request in slot p; sweeps: the invocations so far;
\* last: what the latest request other than /run-sweep did and answered,
\* until its caller has taken the response.
VARIABLES sw, sweeps, last
\* ------------------------------------------------------------- history
\* prev: the latest completed /run-sweep (its number, its response, whether it
\* drafted every message its query matched); manual: the drafts created by /draft
\* and /reply-draft so far.
VARIABLES prev, manual

vars == <<env, savedTokens, mail, labels, drafts, sw, sweeps, last,
          prev, manual>>

\* ------------------------------------------------------------ messages
\* A message as the provider delivers it: its system labels and its headers.
H(name, value) == [name |-> name, value |-> value]

PlainShape ==
  [labelIds |-> {"INBOX", "UNREAD", "CATEGORY_PERSONAL"},
   headers |-> <<H("From", "alice@example.com"), H("Subject", "Hi"),
                 H("Message-ID", "<abc@mail>")>>]
ReadShape ==
  [labelIds |-> {"INBOX", "CATEGORY_PERSONAL"},
   headers |-> <<H("From", "bob@example.com"), H("Subject", "Hi"),
                 H("Message-ID", "<r@mail>")>>]
PromoShape ==
  [labelIds |-> {"INBOX", "UNREAD", "CATEGORY_PROMOTIONS"},
   headers |-> <<H("From", "deals@shop.example"), H("Subject", "Hi"),
                 H("Message-ID", "<p@mail>")>>]
NoReplyShape ==
  [labelIds |-> {"INBOX", "UNREAD", "CATEGORY_PERSONAL"},
   headers |-> <<H("From", "noreply@shop.example"), H("Subject", "Hi"),
                 H("Message-ID", "<n@mail>")>>]
ReceiptShape ==
  [labelIds |-> {"INBOX", "UNREAD", "CATEGORY_PERSONAL"},
   headers |-> <<H("From", "carol@example.com"),
                 H("Subject", "Your receipt"),
                 H("Message-ID", "<c@mail>")>>]

NoDashShape ==
  [labelIds |-> {"INBOX", "UNREAD", "CATEGORY_PERSONAL"},
   headers |-> <<H("From", "no-reply@shop.example"), H("Subject", "Hi"),
                 H("Message-ID", "<d@mail>")>>]

ShapeNames == {"plain", "read", "promo", "noreply", "no-reply", "receipt"}
Shape(name) ==
  CASE name = "plain" -> PlainShape
    [] name = "read" -> ReadShape
    [] name = "promo" -> PromoShape
    [] name = "noreply" -> NoReplyShape
    [] name = "no-reply" -> NoDashShape
    [] name = "receipt" -> ReceiptShape

\* The mailbox holds, from the start, one message of each shape that a fixed
\* term of the queries excludes; the messages that arrive later are plain.
StandingShape ==
  [m \in 101..105 |->
     CASE m = 101 -> "read" [] m = 102 -> "promo" [] m = 103 -> "noreply"
       [] m = 104 -> "no-reply" [] m = 105 -> "receipt"]
Msgs == Arriving \cup DOMAIN StandingShape
Standing(m) ==
  [shape |-> StandingShape[m], labelIds |-> Shape(StandingShape[m]).labelIds,
   headers |-> Shape(StandingShape[m]).headers]

NoMessage == [shape |-> "none", labelIds |-> {}, headers |-> <<>>]
Present(m) == mail[m].shape # "none"
MsgHeaders(m) == mail[m].headers
ThreadId(m) == 100 + m
\* The messages that have arrived so far.
Arrivals == Cardinality({m \in Arriving : Present(m)})


\* name.toLowerCase(), for the header names in use.
LowerName(name) ==
  CASE name = "From" -> "from"
    [] name = "Subject" -> "subject"
    [] name = "Reply-To" -> "reply-to"
    [] name = "Message-ID" -> "message-id"
    [] name = "Message-Id" -> "message-id"
    [] name = "References" -> "references"
    [] OTHER -> name

\* headerValue(headers, name): the value of the first header of that name
\* (names compare in lower case), "" when there is none or its value is
\* empty.
FirstIndex(headers, name) ==
  LET idx == {i \in 1..Len(headers) : LowerName(headers[i].name) = LowerName(name)}
  IN IF idx = {} THEN 0 ELSE CHOOSE i \in idx : \A j \in idx : i <= j

HeaderValue(headers, name) ==
  LET i == FirstIndex(headers, name)
  IN IF i = 0 THEN "" ELSE IF Truthy(headers[i].value) THEN headers[i].value ELSE ""

\* ------------------------------------------------------- provider: search
MarkerName == "AI-Drafted"

\* Whether message m satisfies one term of a search query.
TermHolds(t, m) ==
  CASE t = "is:unread" -> "UNREAD" \in mail[m].labelIds
    [] t = "category:primary" -> "CATEGORY_PERSONAL" \in mail[m].labelIds
    [] t = "-label:AI-Drafted" ->
         ~ \E i \in 1..Len(labels) :
             labels[i].name = MarkerName /\ labels[i].id \in mail[m].labelIds
    [] t = "-from:noreply" ->
         HeaderValue(MsgHeaders(m), "From") # "noreply@shop.example"
    [] t = "-from:no-reply" ->
         HeaderValue(MsgHeaders(m), "From") # "no-reply@shop.example"
    [] t = "-subject:(receipt OR invoice OR confirmation OR unsubscribe)" ->
         HeaderValue(MsgHeaders(m), "Subject") # "Your receipt"

Matching(q) ==
  {m \in Msgs : Present(m) /\ \A i \in 1..Len(q) : TermHolds(q[i], m)}

\* The ids of S, newest (highest id) first.
RECURSIVE NewestFirst(_)
NewestFirst(S) ==
  IF S = {} THEN <<>>
  ELSE LET top == CHOOSE m \in S : \A k \in S : k <= m
       IN <<top>> \o NewestFirst(S \ {top})

FirstN(s, k) == SubSeq(s, 1, IF k < Len(s) THEN k ELSE Len(s))

\* users.messages.list({q, maxResults}): the matching ids, newest first, cut
\* to maxResults; a maxResults that is no positive number leaves the
\* provider's default page, which holds the whole (small) mailbox.
Search(q, max) ==
  LET all == NewestFirst(Matching(q))
  IN IF max.nan \/ max.n < 1 THEN all ELSE FirstN(all, max.n)

\* ----------------------------------------------------- the two queries
\* The query without the term that excludes the marker.
SweepQueryWithoutMarker ==
  <<"is:unread", "category:primary", "-from:noreply", "-from:no-reply",
    "-subject:(receipt OR invoice OR confirmation OR unsubscribe)">>

SweepQuery ==
  <<"is:unread", "category:primary", "-label:AI-Drafted", "-from:noreply",
    "-from:no-reply",
    "-subject:(receipt OR invoice OR confirmation OR unsubscribe)">>

UnreadPrimaryQuery ==
  <<"is:unread", "category:primary", "-label:AI-Drafted", "-from:noreply",
    "-from:no-reply",
    "-subject:(receipt OR invoice OR confirmation OR unsubscribe)">>

\* Math.min(parseInt(req.query.max || "10", 10), 25)
SweepMax(maxIn) ==
  MathMin(ParseInt(IF TruthySeq(maxIn) THEN maxIn ELSE Chars("10")), Num(25))

UnreadPrimaryMax(maxIn) ==
  MathMin(ParseInt(IF TruthySeq(maxIn) THEN maxIn ELSE Chars("10")), Num(25))

\* The test `!savedTokens` alone.
AuthedAnyTokens == savedTokens.set

\* requireAuthed lets the request through.
Authed == savedTokens.set /\ Truthy(savedTokens.refresh_token)

NoTokens == [set |-> FALSE, refresh_token |-> Undefined]


\* ------------------------------------------------- the decision engine
\* What the body of the completion response parses to.  output is undefined
\* or an array of items; an item's content is undefined, an array of parts
\* with a text each, or some other value; output_text is undefined or a
\* string.
Content(kind, parts) == [kind |-> kind, parts |-> parts]
Json(isNull, hasOutput, items, output_text) ==
  [isNull |-> isNull, hasOutput |-> hasOutput, items |-> items,
   output_text |-> output_text]

NO_REPLY == Chars("NO_REPLY")

JsonReply == Json(FALSE, TRUE, <<Content("array", <<Chars("Hi")>>)>>, UndefSeq)
JsonSentinelPadded ==
  Json(FALSE, TRUE,
       <<Content("array", <<<<" ", "N", "O", "_">>, <<"R", "E", "P", "L", "Y", "\n">>>>)>>,
       UndefSeq)
JsonSentinelDot ==
  Json(FALSE, TRUE, <<Content("undefined", <<>>)>>, NO_REPLY \o <<".">>)
JsonBlank == Json(FALSE, TRUE, <<Content("array", <<<<" ", "\n">>>>)>>, Chars("Hi"))
JsonEmptyParts == Json(FALSE, TRUE, <<Content("array", <<<<>>, UndefSeq>>)>>, <<" ">> \o Chars("Hi"))
JsonError == Json(FALSE, FALSE, <<>>, UndefSeq)
JsonNull == Json(TRUE, FALSE, <<>>, UndefSeq)
JsonContentNotArray == Json(FALSE, TRUE, <<Content("other", <<>>)>>, UndefSeq)

\* What the completion call can come back with: the fetch rejects, the body
\* is no JSON, or the body parses to one of the values above.
AiResponses ==
  {[kind |-> "neterr", val |-> JsonNull], [kind |-> "badbody", val |-> JsonNull]}
    \cup {[kind |-> "json", val |-> v] :
            v \in {JsonReply, JsonSentinelPadded, JsonSentinelDot, JsonBlank,
                   JsonEmptyParts, JsonError, JsonNull, JsonContentNotArray}}

\* parts.map(c => c.text).join(""): undefined joins as the empty string.
RECURSIVE JoinTexts(_)
JoinTexts(parts) ==
  IF parts = <<>> THEN <<>>
  ELSE (IF Head(parts) = UndefSeq THEN <<>> ELSE Head(parts)) \o JoinTexts(Tail(parts))

\* Evaluating aiJson.output?.[0]?.content?.map(...) throws a TypeError.
ExtractThrows(v) ==
  \/ v.isNull
  \/ v.hasOutput /\ v.items # <<>> /\ v.items[1].kind = "other"

\* aiJson.output?.[0]?.content?.map(c => c.text).join("") || aiJson.output_text || ""
ExtractText(v) ==
  LET a == IF v.hasOutput /\ v.items # <<>> /\ v.items[1].kind = "array"
             THEN JoinTexts(v.items[1].parts) ELSE UndefSeq
      b == IF TruthySeq(a) THEN a ELSE v.output_text
  IN IF TruthySeq(b) THEN b ELSE <<>>

\* The text as it came, untrimmed.
ReplyTextUntrimmed(text) == IF TruthySeq(text) THEN text ELSE <<>>

\* (text || "").trim()
ReplyTextOf(text) == Trim(IF TruthySeq(text) THEN text ELSE <<>>)

\* !replyText || replyText === "NO_REPLY"
NoReplyNeeded(replyText) == ~TruthySeq(replyText) \/ replyText = NO_REPLY


\* ------------------------------------------------------------ composing
Lower(c) ==
  CASE c = "R" -> "r" [] c = "E" -> "e" [] c = "H" -> "h" [] c = "Y" -> "y"
    [] OTHER -> c

\* subject.startsWith("Re:"), the case of the letters not folded.
StartsWithReExact(subject) ==
  LET cs == Chars(subject)
  IN Len(cs) >= 3 /\ cs[1] = "R" /\ cs[2] = "e" /\ cs[3] = ":"

\* subject.toLowerCase().startsWith("re:")
StartsWithRe(subject) ==
  LET cs == Chars(subject)
  IN Len(cs) >= 3 /\ Lower(cs[1]) = "r" /\ Lower(cs[2]) = "e" /\ cs[3] = ":"

ReplySubject(subject) ==
  IF StartsWithRe(subject) THEN subject ELSE "Re: " \o subject

\* The sender preferred over the reply address.
ToAddrFromFirst(replyTo, origFrom) ==
  IF Truthy(origFrom) THEN origFrom ELSE replyTo

\* replyTo || origFrom
ToAddr(replyTo, origFrom) == IF Truthy(replyTo) THEN replyTo ELSE origFrom

\* The two values joined with nothing between them.
RefsUnspaced(refsHeader, msgIdHeader) ==
  IF Truthy(refsHeader) THEN refsHeader \o msgIdHeader ELSE msgIdHeader

\* refsHeader ? `${refsHeader} ${msgIdHeader}` : msgIdHeader
Refs(refsHeader, msgIdHeader) ==
  IF Truthy(refsHeader) THEN refsHeader \o " " \o msgIdHeader ELSE msgIdHeader

\* The threading lines pushed whenever either header has a value.
ThreadingLinesForEither(msgIdHeader, refsHeader) ==
  IF Truthy(msgIdHeader) \/ Truthy(refsHeader)
    THEN <<H("In-Reply-To", msgIdHeader),
           H("References", Refs(refsHeader, msgIdHeader))>>
    ELSE <<>>

\* if (msgIdHeader) { push In-Reply-To; push References }
ThreadingLines(msgIdHeader, refsHeader) ==
  IF Truthy(msgIdHeader)
    THEN <<H("In-Reply-To", msgIdHeader),
           H("References", Refs(refsHeader, msgIdHeader))>>
    ELSE <<>>

\* The header lines of the reply to a message with headers oh.
ReplyHeaders(oh) ==
  LET origSubject == HeaderValue(oh, "Subject")
      replyTo == HeaderValue(oh, "Reply-To")
      origFrom == HeaderValue(oh, "From")
      msgIdHeader == HeaderValue(oh, "Message-ID")
      refsHeader == HeaderValue(oh, "References")
  IN <<H("To", ToAddr(replyTo, origFrom)), H("Subject", ReplySubject(origSubject)),
       H("MIME-Version", "1.0"),
       H("Content-Type", "text/plain; charset=\"UTF-8\"")>>
     \o ThreadingLines(msgIdHeader, refsHeader)

\* The message base64UrlEncode is given: the header lines joined by CRLF, a
\* blank line, the body and a line break.
RawMessage(lines, body) == [headers |-> lines, body |-> body]
NoRaw == RawMessage(<<>>, <<>>)

\* --------------------------------------------------------- /run-sweep
NoId == "<null>"
NoCall ==
  [op |-> "none", q |-> <<>>, max |-> Num(0), id |-> 0, raw |-> NoRaw,
   threadId |-> 0, addLabelIds |-> {}]
NoResp == [status |-> 0, ok |-> FALSE, error |-> "", drafted |-> <<>>]

NoReq == [auth |-> Undefined, max |-> UndefSeq]
NoErr == [op |-> "none", id |-> 0]

\* A /run-sweep request: the handler's position (the call it is suspended on)
\* and its locals, and for the record of what it did: no, its number among
\* the requests that passed the guards (0: it did not); calls, the remote
\* calls it issued, in the order it issued them; decision, the candidate and text of the latest completion
\* (empty before the first); marked, the messages whose modify call succeeded;
\* err, the failed call that console.error(err) logged; cut, whether the
\* search left out matching messages; arrivalsAtStart, the arrivals so far
\* when it began.
IdleSweep ==
  [pc |-> "idle", no |-> 0, req |-> NoReq, call |-> NoCall, ids |-> <<>>,
   labelId |-> NoId, i |-> 0, text |-> <<>>, replyText |-> <<>>, draftId |-> NoId,
   drafted |-> <<>>, resp |-> NoResp, calls |-> <<>>, decision |-> {},
   marked |-> {}, err |-> NoErr, cut |-> FALSE, arrivalsAtStart |-> 0]

\* The handler issues a remote call and suspends on it.
Await(r, pc, call) ==
  [r EXCEPT !.pc = pc, !.call = call,
            !.calls = Append(@, [op |-> call.op, id |-> call.id])]

\* The handler sends a response and ends.
Respond(r, resp) == [r EXCEPT !.pc = "done", !.call = NoCall, !.resp = resp]

\* catch (err): console.error(err);
\* res.status(500).json({ error: "Sweep failed. Check logs." })
SweepFailed(r) ==
  Respond([r EXCEPT !.err = [op |-> r.call.op, id |-> r.call.id]],
          [status |-> 500, ok |-> FALSE, error |-> "Sweep failed. Check logs.",
           drafted |-> <<>>])

\* A loop that takes up the candidate it has just handled once more.
LoopFromAgain(r, i) ==
  LET j == IF r.i >= 1 /\ r.i <= Len(r.ids) THEN r.i ELSE i
  IN IF j <= Len(r.ids)
       THEN Await([r EXCEPT !.i = j, !.text = <<>>, !.replyText = <<>>, !.draftId = NoId],
                  "getfull", [NoCall EXCEPT !.op = "messages.get", !.id = r.ids[j]])
       ELSE Respond([r EXCEPT !.i = j, !.text = <<>>, !.replyText = <<>>, !.draftId = NoId],
                    [status |-> 200, ok |-> TRUE, error |-> "", drafted |-> r.drafted])

\* The head of `for (const id of ids)` with i the next index: the full fetch
\* of candidate i, or after the last candidate the success response.
LoopFrom(r, i) ==
  IF i <= Len(r.ids)
    THEN Await([r EXCEPT !.i = i, !.text = <<>>, !.replyText = <<>>, !.draftId = NoId],
               "getfull", [NoCall EXCEPT !.op = "messages.get", !.id = r.ids[i]])
    ELSE Respond([r EXCEPT !.i = i, !.text = <<>>, !.replyText = <<>>, !.draftId = NoId],
                 [status |-> 200, ok |-> TRUE, error |-> "", drafted |-> r.drafted])

\* What a request other than /run-sweep did: the remote calls it made, the
\* search it issued (q, max, ids), the draft it asked for (id: the message
\* replied to, raw, threadId), the refresh_token of the exchange's answer,
\* and the response it sent.
NoLast ==
  [op |-> "none", status |-> 0, calls |-> {}, q |-> <<>>, max |-> Num(0),
   ids |-> <<>>, id |-> 0, raw |-> NoRaw, threadId |-> 0, refresh |-> Undefined]

\* The bearer check without the test that a secret is configured.
SweepAuthorizedAnySecret(auth) ==
  (IF Truthy(auth) THEN auth ELSE "") = "Bearer " \o Str(env.SWEEP_SECRET)

\* The bearer check of /run-sweep passes:
\* !(!SWEEP_SECRET || auth !== expected), auth the header or "".
SweepAuthorized(auth) ==
  LET authHeader == IF Truthy(auth) THEN auth ELSE ""
      expected == "Bearer " \o Str(env.SWEEP_SECRET)
  IN ~(~Truthy(env.SWEEP_SECRET) \/ authHeader # expected)

\* The request arrives: requireAuthed, the two guards, then the search call.
StartSweep(p, auth, maxIn) ==
  /\ sw[p].pc = "idle"
  /\ sweeps < MaxSweeps
  /\ LET ran == Authed /\ SweepAuthorized(auth) /\ Truthy(env.OPENAI_API_KEY)
         r == [IdleSweep EXCEPT !.no = IF ran THEN sweeps + 1 ELSE 0,
                                !.arrivalsAtStart = Arrivals,
                                !.req = [auth |-> auth, max |-> maxIn]]
     IN /\ sweeps' = IF ran THEN sweeps + 1 ELSE sweeps
        /\ IF ~Authed
          THEN sw' = [sw EXCEPT ![p] =
                    Respond(r, [status |-> 401, ok |-> FALSE,
                                error |-> "Not authorized. Visit /oauth/authorize",
                                drafted |-> <<>>])]
          ELSE sw' = [sw EXCEPT ![p] =
                    IF ~SweepAuthorized(auth)
                      THEN Respond(r, [status |-> 401, ok |-> FALSE,
                                       error |-> "Unauthorized", drafted |-> <<>>])
                    ELSE IF ~Truthy(env.OPENAI_API_KEY)
                      THEN Respond(r, [status |-> 500, ok |-> FALSE,
                                       error |-> "Missing OPENAI_API_KEY env var",
                                       drafted |-> <<>>])
                    ELSE Await(r, "list",
                               [NoCall EXCEPT !.op = "messages.list", !.q = SweepQuery,
                                              !.max = SweepMax(maxIn)])]
  /\ UNCHANGED <<last, env, savedTokens, mail, labels, drafts, prev, manual>>


\* A failed search taken for an empty result.
ListReturnEmptyOnFailure(p, ok) ==
  /\ sw[p].pc = "list"
  /\ sw' = [sw EXCEPT ![p] =
       Await([@ EXCEPT !.ids = IF ok THEN Search(sw[p].call.q, sw[p].call.max)
                                ELSE <<>>,
                       !.cut = ok /\ Len(Search(sw[p].call.q, sw[p].call.max))
                                       < Cardinality(Matching(sw[p].call.q)),
                       !.req = [sw[p].req EXCEPT !.max = UndefSeq]],
             "labels", [NoCall EXCEPT !.op = "labels.list"])]
  /\ UNCHANGED <<last, env, savedTokens, mail, labels, drafts, sweeps, prev, manual>>

\* users.messages.list returns or fails; on success the label list is asked.
ListReturn(p, ok) ==
  /\ sw[p].pc = "list"
  /\ sw' = [sw EXCEPT ![p] =
       IF ok
         THEN Await([@ EXCEPT !.ids = Search(sw[p].call.q, sw[p].call.max),
                               !.cut = Len(Search(sw[p].call.q, sw[p].call.max))
                                         < Cardinality(Matching(sw[p].call.q)),
                               !.req = [sw[p].req EXCEPT !.max = UndefSeq]],
                    "labels", [NoCall EXCEPT !.op = "labels.list"])
         ELSE SweepFailed(@)]
  /\ UNCHANGED <<last, env, savedTokens, mail, labels, drafts, sweeps, prev, manual>>

\* labels.find(l => l.name === "AI-Drafted"): the index of the first, or 0.
ExistingMarker ==
  LET idx == {i \in 1..Len(labels) : labels[i].name = MarkerName}
  IN IF idx = {} THEN 0 ELSE CHOOSE i \in idx : \A j \in idx : i <= j

\* The label created without a look at the list.
LabelsReturnAlwaysCreate(p, ok) ==
  /\ sw[p].pc = "labels"
  /\ sw' = [sw EXCEPT ![p] =
       IF ~ok THEN SweepFailed(@)
       ELSE Await(@, "create", [NoCall EXCEPT !.op = "labels.create"])]
  /\ UNCHANGED <<last, env, savedTokens, mail, labels, drafts, sweeps, prev, manual>>

\* users.labels.list returns or fails; the marker label is taken from the list
\* or its creation is asked.
LabelsReturn(p, ok) ==
  /\ sw[p].pc = "labels"
  /\ sw' = [sw EXCEPT ![p] =
       IF ~ok THEN SweepFailed(@)
       ELSE IF ExistingMarker # 0
         THEN LoopFrom([@ EXCEPT !.labelId = labels[ExistingMarker].id], 1)
         ELSE Await(@, "create", [NoCall EXCEPT !.op = "labels.create"])]
  /\ UNCHANGED <<last, env, savedTokens, mail, labels, drafts, sweeps, prev, manual>>

NewLabelId == "Label_" \o ToString(Len(labels) + 1)

\* users.labels.create returns the new label or fails.
CreateReturn(p, ok) ==
  /\ sw[p].pc = "create"
  /\ IF ok
       THEN /\ labels' = Append(labels, [id |-> NewLabelId, name |-> MarkerName])
            /\ sw' = [sw EXCEPT ![p] = LoopFrom([@ EXCEPT !.labelId = NewLabelId], 1)]
       ELSE /\ sw' = [sw EXCEPT ![p] = SweepFailed(@)]
            /\ UNCHANGED labels
  /\ UNCHANGED <<last, env, savedTokens, mail, drafts, sweeps, prev,
                 manual>>

\* users.messages.get (format full) returns or fails; on success the
\* completion is asked.
GetFullReturn(p, ok) ==
  /\ sw[p].pc = "getfull"
  /\ sw' = [sw EXCEPT ![p] =
       IF ok THEN Await(@, "ai", [NoCall EXCEPT !.op = "openai", !.id = sw[p].call.id])
       ELSE SweepFailed(@)]
  /\ UNCHANGED <<last, env, savedTokens, mail, labels, drafts, sweeps, prev, manual>>

\* The completion call returns resp: the fetch and the body's parse (either
\* may throw), the text, the trim, the NO_REPLY test.
DecisionReturn(p, resp) ==
  /\ sw[p].pc = "ai"
  /\ sw' = [sw EXCEPT ![p] =
       IF resp.kind # "json" \/ ExtractThrows(resp.val) THEN SweepFailed(@)
       ELSE LET text == ExtractText(resp.val)
                replyText == ReplyTextOf(text)
                r == [@ EXCEPT !.text = text, !.replyText = replyText,
                               !.decision = {[id |-> sw[p].call.id, text |-> text]}]
            IN IF NoReplyNeeded(replyText)
                 THEN LoopFrom(r, r.i + 1)
                 ELSE Await(r, "getmeta",
                            [NoCall EXCEPT !.op = "messages.get", !.id = r.ids[r.i]])]
  /\ UNCHANGED <<last, env, savedTokens, mail, labels, drafts, sweeps, prev, manual>>

\* users.messages.get (format metadata) returns or fails; on success the
\* reply is composed and the draft is asked.
GetMetaReturn(p, ok) ==
  /\ sw[p].pc = "getmeta"
  /\ sw' = [sw EXCEPT ![p] =
       IF ok
         THEN Await(@, "draft",
                    [NoCall EXCEPT !.op = "drafts.create", !.id = sw[p].ids[sw[p].i],
                       !.raw = RawMessage(ReplyHeaders(MsgHeaders(sw[p].ids[sw[p].i])),
                                          sw[p].replyText),
                       !.threadId = ThreadId(sw[p].ids[sw[p].i])])
         ELSE SweepFailed(@)]
  /\ UNCHANGED <<last, env, savedTokens, mail, labels, drafts, sweeps, prev, manual>>

\* The id the provider gives a new draft: fresh, and otherwise opaque.
NewDraftId(for, by) ==
  "r" \o ToString(by) \o "-" \o ToString(for) \o "-"
      \o ToString(Cardinality({d \in drafts : d.for = for /\ d.by = by}) + 1)

\* A draft as the provider keeps it: its id and thread (the model does not
\* keep the message text: nothing reads a draft back); `for` and `by` record
\* on whose behalf it was created: the candidate and the sweep invocation
\* (0: no sweep).
Draft(id, raw, threadId, for, by) ==
  [id |-> id, threadId |-> threadId, for |-> for, by |-> by]

\* The label asked to be applied whether or not the draft was created.
DraftReturnMarksAnyway(p, ok) ==
  /\ sw[p].pc = "draft"
  /\ drafts' = IF ok
                 THEN drafts \cup
                        {Draft(NewDraftId(sw[p].call.id, sw[p].no), sw[p].call.raw,
                               sw[p].call.threadId, sw[p].call.id, sw[p].no)}
                 ELSE drafts
  /\ sw' = [sw EXCEPT ![p] =
       Await([@ EXCEPT !.draftId = NewDraftId(sw[p].call.id, sw[p].no)], "modify",
             [NoCall EXCEPT !.op = "messages.modify", !.id = sw[p].ids[sw[p].i],
                            !.addLabelIds = {sw[p].labelId}])]
  /\ UNCHANGED <<last, env, savedTokens, mail, labels, sweeps, prev,
                 manual>>

\* users.drafts.create returns the draft or fails; on success the label is
\* asked to be applied.
DraftReturn(p, ok) ==
  /\ sw[p].pc = "draft"
  /\ IF ok
       THEN /\ drafts' = drafts \cup
                 {Draft(NewDraftId(sw[p].call.id, sw[p].no), sw[p].call.raw,
                        sw[p].call.threadId, sw[p].call.id, sw[p].no)}
            /\ sw' = [sw EXCEPT ![p] =
                 Await([@ EXCEPT !.draftId = NewDraftId(sw[p].call.id, sw[p].no)], "modify",
                       [NoCall EXCEPT !.op = "messages.modify", !.id = sw[p].ids[sw[p].i],
                                      !.addLabelIds = {sw[p].labelId}])]
       ELSE /\ sw' = [sw EXCEPT ![p] = SweepFailed(@)]
            /\ UNCHANGED drafts
  /\ UNCHANGED <<last, env, savedTokens, mail, labels, sweeps, prev,
                 manual>>

\* A modify call that also takes the message out of the unread ones.
ModifiedAndRead(id, addLabelIds) ==
  [mail EXCEPT ![id].labelIds = (@ \cup addLabelIds) \ {"UNREAD"}]

\* A modify call that applies no label.
ModifiedNothing(id, addLabelIds) == mail

\* The provider's side of users.messages.modify({id, addLabelIds}).
Modified(id, addLabelIds) ==
  [mail EXCEPT ![id].labelIds = @ \cup addLabelIds]

\* The pair put at the front of the list.
PushedInFront(drafted, id, draftId) ==
  <<[messageId |-> id, draftId |-> draftId]>> \o drafted

\* A push that reads the draft's id from the wrong place (undefined).
PushedWithoutDraftId(drafted, id, draftId) ==
  Append(drafted, [messageId |-> id, draftId |-> NoId])

\* drafted.push({ messageId: id, draftId: draft.data.id })
Pushed(drafted, id, draftId) ==
  Append(drafted, [messageId |-> id, draftId |-> draftId])

\* users.messages.modify returns or fails; on success the pair is pushed and
\* the loop goes on.
ModifyReturn(p, ok) ==
  /\ sw[p].pc = "modify"
  /\ IF ok
       THEN /\ mail' = Modified(sw[p].call.id, sw[p].call.addLabelIds)
            /\ sw' = [sw EXCEPT ![p] =
                 LoopFrom([@ EXCEPT
                             !.drafted = Pushed(sw[p].drafted, sw[p].ids[sw[p].i],
                                                sw[p].draftId),
                             !.marked = @ \cup {sw[p].call.id}],
                          sw[p].i + 1)]
       ELSE /\ sw' = [sw EXCEPT ![p] = SweepFailed(@)]
            /\ UNCHANGED mail
  /\ UNCHANGED <<last, env, savedTokens, labels, drafts, sweeps, prev,
                 manual>>

\* The caller has the response; the slot is free again.
Finish(p) ==
  /\ sw[p].pc = "done"
  /\ prev' = IF sw[p].no = 0 THEN prev
             ELSE [no |-> sw[p].no, status |-> sw[p].resp.status,
                   drafted |-> sw[p].resp.drafted,
                   all |-> ~sw[p].cut /\ Len(sw[p].resp.drafted) = Len(sw[p].ids),
                   arrivalsAtStart |-> sw[p].arrivalsAtStart]
  /\ sw' = [sw EXCEPT ![p] = IdleSweep]
  /\ UNCHANGED <<last, env, savedTokens, mail, labels, drafts, sweeps, manual>>


\* ------------------------------------------------- the other requests
\* No request is being served and no response waits to be taken.
Idle == last = NoLast /\ \A p \in Slots : sw[p].pc = "idle"

\* The caller of a request other than /run-sweep has the response.
Delivered ==
  /\ last # NoLast
  /\ last' = NoLast
  /\ UNCHANGED <<env, savedTokens, mail, labels, drafts, sw, sweeps, prev, manual>>

\* GET /unread-primary: requireAuthed, the search, one metadata fetch per id.
\* outcome: every call succeeds, the search fails, or a fetch fails.
UnreadPrimary(maxIn, outcome) ==
  /\ Idle
  /\ LET max == UnreadPrimaryMax(maxIn)
         ids == Search(UnreadPrimaryQuery, max)
     IN /\ outcome = "getfail" => ids # <<>>
        /\ IF ~Authed
             THEN last' = [NoLast EXCEPT !.op = "unread-primary", !.status = 401]
             ELSE last' =
                       [op |-> "unread-primary",
                        status |-> IF outcome = "ok" THEN 200 ELSE 500,
                        calls |-> {"messages.list"} \cup
                                  (IF outcome # "listfail" /\ ids # <<>>
                                     THEN {"messages.get"} ELSE {}),
                        q |-> UnreadPrimaryQuery, max |-> max,
                        ids |-> IF outcome = "ok" THEN ids ELSE <<>>]
  /\ UNCHANGED <<env, savedTokens, mail, labels, drafts, sw, sweeps, prev, manual>>

\* POST /reply-draft: requireAuthed, the required fields, the metadata fetch,
\* the composed reply, the draft.  messageId 0: the field is missing.
ReplyDraft(messageId, body, okGet, okCreate) ==
  /\ Idle
  /\ manual < MaxManual
  /\ IF ~Authed
       THEN /\ last' = [NoLast EXCEPT !.op = "reply-draft", !.status = 401]
            /\ UNCHANGED <<drafts, manual>>
       ELSE IF messageId = 0 \/ ~TruthySeq(body)
                 THEN /\ last' = [NoLast EXCEPT !.op = "reply-draft", !.status = 400]
                      /\ UNCHANGED <<drafts, manual>>
               ELSE IF ~okGet \/ ~Present(messageId)
                 THEN /\ last' = [NoLast EXCEPT !.op = "reply-draft", !.status = 500,
                                                !.calls = {"messages.get"}]
                      /\ UNCHANGED <<drafts, manual>>
               ELSE IF ~okCreate
                 THEN /\ last' = [NoLast EXCEPT !.op = "reply-draft", !.status = 500,
                                     !.calls = {"messages.get", "drafts.create"},
                                     !.id = messageId,
                                     !.raw = RawMessage(ReplyHeaders(MsgHeaders(messageId)), body),
                                     !.threadId = ThreadId(messageId)]
                      /\ UNCHANGED <<drafts, manual>>
               ELSE /\ drafts' = drafts \cup
                         {Draft(NewDraftId(messageId, 0),
                                RawMessage(ReplyHeaders(MsgHeaders(messageId)), body),
                                ThreadId(messageId), messageId, 0)}
                    /\ manual' = manual + 1
                    /\ last' = [NoLast EXCEPT !.op = "reply-draft", !.status = 200,
                                   !.calls = {"messages.get", "drafts.create"},
                                   !.id = messageId,
                                   !.raw = RawMessage(ReplyHeaders(MsgHeaders(messageId)), body),
                                   !.threadId = ThreadId(messageId)]
  /\ UNCHANGED <<env, savedTokens, mail, labels, sw, sweeps, prev>>

\* POST /draft: requireAuthed, the required fields, the draft (no thread).
\* complete: to, subject and body are all given.
NewDraft(complete, okCreate) ==
  /\ Idle
  /\ manual < MaxManual
  /\ IF ~Authed
       THEN /\ last' = [NoLast EXCEPT !.op = "draft", !.status = 401]
            /\ UNCHANGED <<drafts, manual>>
       ELSE IF ~complete
                 THEN /\ last' = [NoLast EXCEPT !.op = "draft", !.status = 400]
                      /\ UNCHANGED <<drafts, manual>>
               ELSE IF ~okCreate
                 THEN /\ last' = [NoLast EXCEPT !.op = "draft", !.status = 500,
                                                !.calls = {"drafts.create"}]
                      /\ UNCHANGED <<drafts, manual>>
               ELSE /\ drafts' = drafts \cup
                         {Draft(NewDraftId(0, 0),
                                RawMessage(<<H("To", "dave@example.com"), H("Subject", "Hi"),
                                             H("MIME-Version", "1.0"),
                                             H("Content-Type", "text/plain; charset=\"UTF-8\"")>>,
                                           Chars("Hi")),
                                0, 0, 0)}
                    /\ manual' = manual + 1
                    /\ last' = [NoLast EXCEPT !.op = "draft", !.status = 200,
                                   !.calls = {"drafts.create"}]
  /\ UNCHANGED <<env, savedTokens, mail, labels, sw, sweeps, prev>>

\* The answer of the exchange stored as it came: savedTokens = tokens.
OauthCallbackTokensOnly(hasCode, okExchange, refresh) ==
  /\ Idle
  /\ IF ~hasCode
       THEN /\ last' = [NoLast EXCEPT !.op = "callback", !.status = 400]
            /\ UNCHANGED savedTokens
     ELSE IF ~okExchange
       THEN /\ last' = [NoLast EXCEPT !.op = "callback", !.status = 500]
            /\ UNCHANGED savedTokens
     ELSE /\ savedTokens' = [set |-> TRUE, refresh_token |-> refresh]
          /\ last' = [NoLast EXCEPT !.op = "callback", !.status = 200,
                                    !.refresh = refresh]
  /\ UNCHANGED <<env, mail, labels, drafts, sw, sweeps, prev, manual>>

\* GET /oauth/callback: the code, the exchange, the stored tokens.
\* refresh: the refresh_token of the exchange's answer (undefined: none).
OauthCallback(hasCode, okExchange, refresh) ==
  /\ Idle
  /\ IF ~hasCode
       THEN /\ last' = [NoLast EXCEPT !.op = "callback", !.status = 400]
            /\ UNCHANGED savedTokens
     ELSE IF ~okExchange
       THEN /\ last' = [NoLast EXCEPT !.op = "callback", !.status = 500]
            /\ UNCHANGED savedTokens
     ELSE LET kept == IF Truthy(refresh) THEN refresh
                      ELSE IF savedTokens.set THEN savedTokens.refresh_token
                      ELSE Undefined
              tokens == [set |-> TRUE, refresh_token |-> kept]
          IN /\ savedTokens' = tokens
             /\ last' = [NoLast EXCEPT !.op = "callback", !.status = 200,
                                       !.refresh = refresh]
  /\ UNCHANGED <<env, mail, labels, drafts, sw, sweeps, prev, manual>>

\* ------------------------------------------------------- environment
\* Between two requests a message arrives in the mailbox.
Arrive(m) ==
  /\ Idle
  /\ mail[m].shape = "none"
  /\ \A k \in Arriving : k > m => mail[k].shape = "none"
  /\ mail' = [mail EXCEPT ![m] = [shape |-> "plain", labelIds |-> PlainShape.labelIds,
                                   headers |-> PlainShape.headers]]
  /\ UNCHANGED <<last, env, savedTokens, labels, drafts, sw, sweeps, prev, manual>>

\* ------------------------------------------------------ specification
AuthHeaders == {Undefined, "Bearer s3cret", "Bearer wrong", "Bearer undefined"}

\* req.query.max: absent, empty, or one of these strings.
MaxInputs ==
  {UndefSeq, <<>>, <<"0">>, <<"2">>, <<"-", "2">>, <<"2", "9">>, <<"x">>,
   <<" ", "2", "x">>}

\* let savedTokens = null; if (GOOGLE_REFRESH_TOKEN) savedTokens = {...}
StartTokens(GOOGLE_REFRESH_TOKEN) ==
  IF Truthy(GOOGLE_REFRESH_TOKEN)
    THEN [set |-> TRUE, refresh_token |-> GOOGLE_REFRESH_TOKEN]
    ELSE NoTokens

NoPrev ==
  [no |-> 0, status |-> 0, drafted |-> <<>>, all |-> FALSE, arrivalsAtStart |-> 0]

Init ==
  /\ env \in [OPENAI_API_KEY : {Undefined, "sk"}, SWEEP_SECRET : {Undefined, "s3cret"}]
  /\ \E GOOGLE_REFRESH_TOKEN \in {Undefined, "rt_env"} :
       savedTokens = StartTokens(GOOGLE_REFRESH_TOKEN)
  /\ mail = [m \in Msgs |-> IF m \in Arriving THEN NoMessage ELSE Standing(m)]
  /\ labels = <<[id |-> "Label_1", name |-> "Work"]>>
  /\ drafts = {}
  /\ sw = [p \in Slots |-> IdleSweep]
  /\ sweeps = 0
  /\ last = NoLast
  /\ prev = NoPrev
  /\ manual = 0

\* One request at a time: a /run-sweep runs from its arrival to its response
\* before the next request is taken.
Next ==
  \/ \E auth \in AuthHeaders, maxIn \in MaxInputs : Idle /\ StartSweep(1, auth, maxIn)
  \/ \E ok \in BOOLEAN : ListReturn(1, ok)
  \/ \E ok \in BOOLEAN : LabelsReturn(1, ok)
  \/ \E ok \in BOOLEAN : CreateReturn(1, ok)
  \/ \E ok \in BOOLEAN : GetFullReturn(1, ok)
  \/ \E resp \in AiResponses : DecisionReturn(1, resp)
  \/ \E ok \in BOOLEAN : GetMetaReturn(1, ok)
  \/ \E ok \in BOOLEAN : DraftReturn(1, ok)
  \/ \E ok \in BOOLEAN : ModifyReturn(1, ok)
  \/ Finish(1)
  \/ Delivered
  \/ \E maxIn \in MaxInputs, outcome \in {"ok", "listfail", "getfail"} :
       UnreadPrimary(maxIn, outcome)
  \/ \E m \in {0, 1}, body \in {<<>>, Chars("Hi")}, okGet, okCreate \in BOOLEAN :
       ReplyDraft(m, body, okGet, okCreate)
  \/ \E complete, okCreate \in BOOLEAN : NewDraft(complete, okCreate)
  \/ \E hasCode, okExchange \in BOOLEAN, refresh \in {Undefined, "rt_new"} :
       OauthCallback(hasCode, okExchange, refresh)
  \/ \E m \in Arriving : Arrive(m)

Spec == Init /\ [][Next]_vars

\* --------------------------------------- specification: overlapping
\* An authorized, configured process; the mailbox as at start.
InitConc ==
  /\ env = [OPENAI_API_KEY |-> "sk", SWEEP_SECRET |-> "s3cret"]
  /\ savedTokens = StartTokens("rt_env")
  /\ mail = [m \in Msgs |-> IF m \in Arriving THEN NoMessage ELSE Standing(m)]
  /\ labels = <<[id |-> "Label_1", name |-> "Work"]>>
  /\ drafts = {}
  /\ sw = [p \in Slots |-> IdleSweep]
  /\ sweeps = 0
  /\ last = NoLast
  /\ prev = NoPrev
  /\ manual = 0

\* The completion answers with a reply or with no text.
ConcResponses ==
  {[kind |-> "json", val |-> JsonReply], [kind |-> "json", val |-> JsonError]}

\* /run-sweep requests are taken while another is suspended on a remote
\* call: the handlers interleave at their awaits.  A request takes the first
\* free slot.
NextConc ==
  \/ \E p \in Slots :
       /\ \A q \in Slots : q < p => sw[q].pc # "idle"
       /\ StartSweep(p, "Bearer s3cret", UndefSeq)
  \/ \E p \in Slots, ok \in BOOLEAN : ListReturn(p, ok)
  \/ \E p \in Slots, ok \in BOOLEAN : LabelsReturn(p, ok)
  \/ \E p \in Slots, ok \in BOOLEAN : CreateReturn(p, ok)
  \/ \E p \in Slots, ok \in BOOLEAN : GetFullReturn(p, ok)
  \/ \E p \in Slots, resp \in ConcResponses : DecisionReturn(p, resp)
  \/ \E p \in Slots, ok \in BOOLEAN : GetMetaReturn(p, ok)
  \/ \E p \in Slots, ok \in BOOLEAN : DraftReturn(p, ok)
  \/ \E p \in Slots, ok \in BOOLEAN : ModifyReturn(p, ok)
  \/ \E p \in Slots : Finish(p)
  \/ \E m \in Arriving : Arrive(m)

SpecConc == InitConc /\ [][NextConc]_vars

\* ------------------------------------------ specification: progress
\* The remote call the sweep in slot p is suspended on returns, with a result
\* or a failure.
Returns(p) ==
  \/ \E ok \in BOOLEAN : ListReturn(p, ok)
  \/ \E ok \in BOOLEAN : LabelsReturn(p, ok)
  \/ \E ok \in BOOLEAN : CreateReturn(p, ok)
  \/ \E ok \in BOOLEAN : GetFullReturn(p, ok)
  \/ \E resp \in AiResponses : DecisionReturn(p, resp)
  \/ \E ok \in BOOLEAN : GetMetaReturn(p, ok)
  \/ \E ok \in BOOLEAN : DraftReturn(p, ok)
  \/ \E ok \in BOOLEAN : ModifyReturn(p, ok)

\* One /run-sweep at a time on a mailbox in which mail arrives.
NextLive ==
  \/ \E auth \in AuthHeaders, maxIn \in MaxInputs : Idle /\ StartSweep(1, auth, maxIn)
  \/ Returns(1)
  \/ Finish(1)
  \/ \E m \in Arriving : Arrive(m)

\* Every remote call returns in the end: the handler is resumed whenever it
\* is suspended on one.
SpecLive == InitConc /\ [][NextLive]_vars /\ WF_vars(Returns(1))

\* ------------------------------------------- specification: composing
\* The headers of the original messages the composing is tried on.  A header
\* is absent (Undefined), present with an empty value, or present with a
\* value; Reply-To and Message-ID come in two spellings of their names.
Opt(name, value) == IF value = Undefined THEN <<>> ELSE <<H(name, value)>>

SubjectStrings == {Join(cs) : cs \in ShortTexts} \cup {"Hi", "Re: Hi"}

OrigHeaders ==
  {Opt("From", "alice@example.com") \o Opt("Subject", subject)
     \o Opt("Message-ID", "<abc@mail>") :
       subject \in SubjectStrings \cup {Undefined}}
  \cup
  {Opt("From", from) \o Opt(replyToName, replyTo) \o Opt("Subject", "Hi")
     \o Opt(msgIdName, msgId) \o Opt("References", refs) :
       from \in {Undefined, "alice@example.com"},
       replyToName \in {"Reply-To", "reply-to"},
       replyTo \in {Undefined, "", "team@example.com"},
       msgIdName \in {"Message-ID", "Message-Id"},
       msgId \in {Undefined, "", "<abc@mail>"},
       refs \in {Undefined, "", "<r1@mail> <r2@mail>"}}

\* An authorized, configured process and a mailbox in which the newest
\* message is unread, in Primary, and has headers of OrigHeaders.
InitCompose ==
  /\ env = [OPENAI_API_KEY |-> "sk", SWEEP_SECRET |-> "s3cret"]
  /\ savedTokens = StartTokens("rt_env")
  /\ \E oh \in OrigHeaders :
       mail = [m \in Msgs |->
                 IF m = 1 THEN [shape |-> "plain", labelIds |-> PlainShape.labelIds,
                                headers |-> oh]
                 ELSE IF m \in Arriving THEN NoMessage ELSE Standing(m)]
  /\ labels = <<[id |-> "Label_1", name |-> "Work"]>>
  /\ drafts = {}
  /\ sw = [p \in Slots |-> IdleSweep]
  /\ sweeps = 0
  /\ last = NoLast
  /\ prev = NoPrev
  /\ manual = 0

\* The two requests that compose a reply, /run-sweep and /reply-draft: one
\* sweep and one manual reply for each original.
NextCompose ==
  \/ Idle /\ sweeps = 0 /\ StartSweep(1, "Bearer s3cret", UndefSeq)
  \/ \E ok \in BOOLEAN : ListReturn(1, ok)
  \/ \E ok \in BOOLEAN : LabelsReturn(1, ok)
  \/ \E ok \in BOOLEAN : CreateReturn(1, ok)
  \/ \E ok \in BOOLEAN : GetFullReturn(1, ok)
  \/ \E resp \in AiResponses : DecisionReturn(1, resp)
  \/ \E ok \in BOOLEAN : GetMetaReturn(1, ok)
  \/ \E ok \in BOOLEAN : DraftReturn(1, ok)
  \/ \E ok \in BOOLEAN : ModifyReturn(1, ok)
  \/ Finish(1)
  \/ Delivered
  \/ \E okGet, okCreate \in BOOLEAN :
       manual = 0 /\ ReplyDraft(1, Chars("Hi"), okGet, okCreate)

SpecCompose == InitCompose /\ [][NextCompose]_vars


\* ================================================================ claims
\* Message m carries the processed marker: a label named AI-Drafted.
HasMarker(m) ==
  \E i \in 1..Len(labels) :
    labels[i].name = MarkerName /\ labels[i].id \in mail[m].labelIds

\* The sweep invocations that created a draft for message m.
DraftedBy(m) == {d.by : d \in {x \in drafts : x.for = m /\ x.by # 0}}

\* The remote calls the sweep in slot p has issued so far.
CallsOf(p) == {sw[p].calls[k] : k \in 1..Len(sw[p].calls)}

\* The draft-create (label-apply) call for candidate id was issued by the
\* sweep in slot p.
DraftAttempted(p, id) == [op |-> "drafts.create", id |-> id] \in CallsOf(p)
LabelAttempted(p, id) == [op |-> "messages.modify", id |-> id] \in CallsOf(p)

\* The messages of a drafted list.
MessagesOf(drafted) == {drafted[i].messageId : i \in 1..Len(drafted)}

\* C1: across non-overlapping sweeps (failed and aborted ones included), a
\* message for which one sweep created a reply draft never gets a second
\* draft from a later sweep: no message has drafts of two invocations.
C1_NeverRedrafted == \A m \in Msgs : Cardinality(DraftedBy(m)) <= 1

\* C2: a message that carries the processed marker is never in the candidate
\* set of a later selection, by /run-sweep or by /unread-primary, and the
\* query of either selection carries the term that excludes the marker.
C2_MarkedNeverSelected ==
  /\ [][\A p \in Slots :
          (sw[p].pc = "list" /\ sw'[p].pc = "labels") =>
            /\ \E k \in 1..Len(sw[p].call.q) : sw[p].call.q[k] = "-label:AI-Drafted"
            /\ \A i \in 1..Len(sw'[p].ids) : ~HasMarker(sw'[p].ids[i])]_vars
  /\ [][(last = NoLast /\ last'.op = "unread-primary" /\ last'.status # 401) =>
          /\ \E k \in 1..Len(last'.q) : last'.q[k] = "-label:AI-Drafted"
          /\ \A i \in 1..Len(last'.ids) : ~HasMarker(last'.ids[i])]_vars

\* A second sweep has just selected a non-empty candidate set while another
\* message carries the marker.
C2_Witness ==
  /\ sw[1].pc = "labels" /\ sw[1].no = 2 /\ sw[1].ids # <<>>
  /\ \E m \in Msgs : HasMarker(m)

\* Two successful sweeps in succession, no mail having arrived since the
\* first began; the second has its response.
TwoInSuccession(p) ==
  /\ sw[p].pc = "done" /\ sw[p].resp.status = 200
  /\ prev.no # 0 /\ prev.no + 1 = sw[p].no /\ prev.status = 200
  /\ prev.arrivalsAtStart = Arrivals

C4_DraftFailureSkipsCandidate ==
  \A p \in Slots :
    (sw[p].pc = "done" /\ sw[p].err.op = "drafts.create") =>
      /\ sw[p].resp.status = 200
      /\ sw[p].err.id \notin sw[p].marked
      /\ MessagesOf(sw[p].resp.drafted) = MessagesOf(sw[p].drafted)

\* C5: a failure of the decision-engine call for one candidate (the fetch
\* fails, the body does not parse, the parsed value has no usable shape) is
\* NoReplyNeeded for that candidate: no draft, no mark, and the sweep answers
\* with success.
C5_DecisionFailureSkipsCandidate ==
  \A p \in Slots :
    (sw[p].pc = "done" /\ sw[p].err.op = "openai") =>
      /\ sw[p].resp.status = 200
      /\ ~DraftAttempted(p, sw[p].err.id)
      /\ sw[p].err.id \notin sw[p].marked


\* C6: the drafted list of a success response holds exactly the candidates
\* for which this sweep created a draft and applied the marker, each with the
\* id of the draft the provider created for it, none twice; a candidate that
\* was skipped is absent.
C6_DraftedListExact ==
  \A p \in Slots :
    (sw[p].pc = "done" /\ sw[p].resp.status = 200) =>
      LET D == sw[p].resp.drafted
      IN /\ MessagesOf(D) =
              {m \in Msgs : /\ \E d \in drafts : d.by = sw[p].no /\ d.for = m
                            /\ sw[p].labelId \in mail[m].labelIds}
         /\ \A i \in 1..Len(D) :
              \E d \in drafts :
                d.id = D[i].draftId /\ d.for = D[i].messageId /\ d.by = sw[p].no
         /\ \A i, j \in 1..Len(D) : D[i].messageId = D[j].messageId => i = j
         /\ \A d \in sw[p].decision :
              Trim(d.text) \in {<<>>, NO_REPLY} => d.id \notin MessagesOf(D)

\* A success response that lists a drafted candidate and leaves out a
\* skipped one.
C6_Witness ==
  /\ sw[1].pc = "done" /\ sw[1].resp.status = 200
  /\ sw[1].resp.drafted # <<>>
  /\ Len(sw[1].resp.drafted) < Len(sw[1].ids)


\* Every draft-create and label-apply call of the sweep in slot p so far is
\* for the candidate of the latest completion or for one already in drafted.
CallsAccounted(p) ==
  \A c \in CallsOf(p) :
    c.op \in {"drafts.create", "messages.modify"} =>
      \/ c.id \in MessagesOf(sw[p].drafted)
      \/ \E d \in sw[p].decision : d.id = c.id

Held == savedTokens.set /\ savedTokens.refresh_token \notin {Undefined, ""}

\* C8: with no refresh credential held, /run-sweep, /unread-primary,
\* /reply-draft and /draft answer 401 at once, issue no remote call and
\* change nothing.
C8_UnauthenticatedFailsFast ==
  [][~Held =>
       /\ \A p \in Slots :
            (sw[p].pc = "idle" /\ sw'[p].pc # "idle") =>
              /\ sw'[p].pc = "done"
              /\ sw'[p].resp.status = 401
              /\ sw'[p].resp.error = "Not authorized. Visit /oauth/authorize"
              /\ sw'[p].calls = <<>>
              /\ UNCHANGED <<mail, labels, drafts, savedTokens>>
       /\ (last = NoLast /\ last'.op \in {"unread-primary", "reply-draft", "draft"}) =>
              /\ last'.status = 401
              /\ last'.calls = {}
              /\ UNCHANGED <<mail, labels, drafts, savedTokens>>]_vars

\* A sweep with the right secret was refused although tokens are stored: an
\* exchange answered without a refresh token and none was held before.
C8_Witness ==
  /\ savedTokens.set /\ ~Held
  /\ sw[1].pc = "done" /\ sw[1].resp.status = 401
  /\ sw[1].req.auth = "Bearer s3cret" /\ env.SWEEP_SECRET = "s3cret"
  /\ env.OPENAI_API_KEY # Undefined
  /\ Arrivals > 0

\* The Authorization header is not the configured bearer secret, or no
\* secret is configured.
BadSecret(auth) ==
  env.SWEEP_SECRET = Undefined \/ auth # "Bearer " \o env.SWEEP_SECRET

\* C9: a /run-sweep whose Authorization header is not the configured bearer
\* secret (or with no secret configured), or made with no decision-engine
\* credential, ends in a fatal-error response with no remote call issued and
\* the mailbox unchanged.
C9_RejectedBeforeAnyCall ==
  [][\A p \in Slots :
       (/\ sw[p].pc = "idle" /\ sw'[p].pc # "idle"
        /\ BadSecret(sw'[p].req.auth) \/ env.OPENAI_API_KEY = Undefined) =>
         /\ sw'[p].pc = "done"
         /\ ~sw'[p].resp.ok /\ sw'[p].resp.status \in {401, 500}
         /\ sw'[p].calls = <<>>
         /\ UNCHANGED <<mail, labels, drafts>>]_vars

\* An authorized process with mail waiting refused a sweep that sent the
\* bearer text an unset secret would render.
C9_Witness ==
  /\ Held /\ Arrivals > 0
  /\ env.SWEEP_SECRET = Undefined /\ env.OPENAI_API_KEY # Undefined
  /\ sw[1].pc = "done" /\ sw[1].req.auth = "Bearer undefined"
  /\ sw[1].resp.error = "Unauthorized"

\* The limit is the number the max parameter denotes (10 when there is none),
\* clamped to [1, 25].
ClampedLimit(limit, maxIn) ==
  LET k == ParseInt(IF maxIn \in {UndefSeq, <<>>} THEN <<"1", "0">> ELSE maxIn)
  IN /\ ~limit.nan /\ limit.n >= 1 /\ limit.n <= 25
     /\ ~k.nan => limit.n = (IF k.n < 1 THEN 1 ELSE IF k.n > 25 THEN 25 ELSE k.n)

\* C10: for every max parameter, the limit /run-sweep and /unread-primary
\* pass to the search lies in [1, 25] and is the input clamped to that range.
C10_LimitClamped ==
  /\ \A p \in Slots :
       sw[p].pc = "list" => ClampedLimit(sw[p].call.max, sw[p].req.max)
  /\ (last.op = "unread-primary" /\ last.status # 401) =>
       (~last.max.nan /\ last.max.n >= 1 /\ last.max.n <= 25)

\* C11: when the candidate search fails, /run-sweep answers with the fatal
\* error, having issued no call but the search; a sweep goes on from the
\* search only with the very list the search returned.
C11_SearchFailureIsFatal ==
  [][\A p \in Slots :
       (sw[p].pc = "list" /\ sw'[p].pc # "list") =>
         \/ /\ sw'[p].pc = "labels"
            /\ sw'[p].ids = Search(sw[p].call.q, sw[p].call.max)
         \/ /\ sw'[p].pc = "done"
            /\ sw'[p].err.op = "messages.list"
            /\ sw'[p].resp.status = 500 /\ ~sw'[p].resp.ok
            /\ sw'[p].resp.error = "Sweep failed. Check logs."
            /\ sw'[p].calls = <<[op |-> "messages.list", id |-> 0]>>]_vars

\* The search of a sweep failed while the mailbox held a candidate.
C11_Witness ==
  /\ sw[1].pc = "done" /\ sw[1].err.op = "messages.list"
  /\ sw[1].resp.status = 500
  /\ Matching(SweepQuery) # {}

\* ------------------------------------------------ composed replies
\* The draft-create calls in sight: the one a sweep is suspended on and the
\* one the latest /reply-draft issued; each with the message replied to.
Composed ==
  {[id |-> sw[p].call.id, raw |-> sw[p].call.raw, threadId |-> sw[p].call.threadId] :
     p \in {q \in Slots : sw[q].pc = "draft"}}
  \cup (IF last.op = "reply-draft" /\ "drafts.create" \in last.calls
          THEN {[id |-> last.id, raw |-> last.raw, threadId |-> last.threadId]}
          ELSE {})

\* The values of the header lines of that name in a composed message.
LinesOf(raw, name) ==
  {raw.headers[i].value : i \in {j \in 1..Len(raw.headers) : raw.headers[j].name = name}}

\* The non-empty values the original message m has for a header (the name in
\* lower case); a header with an empty value counts as absent.
OrigValues(m, lname) ==
  {mail[m].headers[i].value :
     i \in {j \in 1..Len(mail[m].headers) :
              /\ LowerName(mail[m].headers[j].name) = lname
              /\ mail[m].headers[j].value # ""}}
OrigValue(m, lname) ==
  IF OrigValues(m, lname) = {} THEN "" ELSE CHOOSE v \in OrigValues(m, lname) : TRUE

\* The text starts with "re:" in any letter case.
RePrefixed(cs) ==
  Len(cs) >= 3 /\ cs[1] \in {"r", "R"} /\ cs[2] \in {"e", "E"} /\ cs[3] = ":"

\* C12: the subject of a composed reply is the original's subject unchanged
\* when that starts with "re:" in any letter case, and otherwise the original
\* behind "Re: "; only an original that is itself a reply to a reply yields a
\* subject with the prefix twice, and composing the composed subject again
\* leaves it as it is.
C12_SubjectPrefixedOnce ==
  \A c \in Composed :
    LET orig == OrigValue(c.id, "subject")
        subject == CHOOSE v \in LinesOf(c.raw, "Subject") : TRUE
    IN /\ Cardinality(LinesOf(c.raw, "Subject")) = 1
       /\ IF RePrefixed(Chars(orig)) THEN subject = orig
                                     ELSE subject = "Re: " \o orig
       /\ RePrefixed(Chars(subject))
       /\ RePrefixed(SubSeq(Chars(subject), 5, Len(Chars(subject))))
            => RePrefixed(SubSeq(Chars(orig), 5, Len(Chars(orig))))
       /\ ReplySubject(subject) = subject

\* A sweep is about to create the draft of a reply to a message whose subject
\* is the prefix alone, in mixed case.
C12_Witness ==
  /\ sw[1].pc = "draft"
  /\ OrigValue(sw[1].call.id, "subject") = "rE:"
  /\ LinesOf(sw[1].call.raw, "Subject") = {"rE:"}

\* C13: the reply to a message without a Message-ID has no In-Reply-To and no
\* References line, whatever the original's References, and its draft is
\* asked for in the original's thread.
C13_NoMessageIdNoThreadingLines ==
  \A c \in Composed :
    /\ c.threadId = ThreadId(c.id)
    /\ OrigValues(c.id, "message-id") = {} =>
         LinesOf(c.raw, "In-Reply-To") = {} /\ LinesOf(c.raw, "References") = {}

\* A draft is asked for a reply to a message that has References but no
\* Message-ID.
C13_Witness ==
  \E c \in Composed :
    /\ OrigValues(c.id, "message-id") = {}
    /\ OrigValues(c.id, "references") # {}
    /\ c.threadId = ThreadId(c.id)

\* C14: the reply to a message with a Message-ID has that id as its
\* In-Reply-To, and as its References the original's References, one space
\* and the id, or the id alone when the original has no References.
C14_ThreadingLines ==
  \A c \in Composed :
    OrigValues(c.id, "message-id") # {} =>
      LET msgId == OrigValue(c.id, "message-id")
          refs == OrigValue(c.id, "references")
      IN /\ LinesOf(c.raw, "In-Reply-To") = {msgId}
         /\ LinesOf(c.raw, "References") =
              {IF refs = "" THEN msgId ELSE refs \o " " \o msgId}

\* A draft is asked for a reply to a message that has both headers.
C14_Witness ==
  \E c \in Composed :
    /\ OrigValue(c.id, "message-id") = "<abc@mail>"
    /\ OrigValue(c.id, "references") = "<r1@mail> <r2@mail>"
    /\ LinesOf(c.raw, "References") = {"<r1@mail> <r2@mail> <abc@mail>"}

\* C15: the reply goes to the original's Reply-To when it has a non-empty
\* one, and to its From otherwise.
C15_ToAddress ==
  \A c \in Composed :
    LinesOf(c.raw, "To") =
      {IF OrigValues(c.id, "reply-to") # {} THEN OrigValue(c.id, "reply-to")
       ELSE OrigValue(c.id, "from")}

\* A sweep is about to create the draft of a reply to a message that has both
\* a From and a Reply-To (its name in lower case).
C15_Witness ==
  /\ sw[1].pc = "draft"
  /\ OrigValue(sw[1].call.id, "from") = "alice@example.com"
  /\ \E i \in 1..Len(mail[sw[1].call.id].headers) :
       mail[sw[1].call.id].headers[i] = H("reply-to", "team@example.com")
  /\ LinesOf(sw[1].call.raw, "To") = {"team@example.com"}

\* ------------------------------------------------------ the marker label
\* How many calls of that kind the sweep in slot p has issued.
CountOp(p, op) ==
  Cardinality({k \in 1..Len(sw[p].calls) : sw[p].calls[k].op = op})

\* The labels named AI-Drafted.
MarkerLabels == {i \in 1..Len(labels) : labels[i].name = MarkerName}

\* The sweep in slot p is past its label lookup.
InLoop(p) == sw[p].pc \in {"getfull", "ai", "getmeta", "draft", "modify"}

\* C16: a sweep lists the labels once and creates a label at most once, and
\* only when the list has no label named AI-Drafted; every label-apply of the
\* sweep carries the one id it resolved; with one sweep at a time the mailbox
\* never has two labels named AI-Drafted.
C16_MarkerResolvedOnce ==
  /\ [](\A p \in Slots :
          /\ CountOp(p, "labels.list") <= 1 /\ CountOp(p, "labels.create") <= 1
          /\ (InLoop(p) \/ (sw[p].pc = "done" /\ sw[p].resp.status = 200)) =>
               /\ CountOp(p, "labels.list") = 1
               /\ \E i \in MarkerLabels : labels[i].id = sw[p].labelId
          /\ sw[p].pc = "modify" => sw[p].call.addLabelIds = {sw[p].labelId})
  /\ [](Cardinality(MarkerLabels) <= 1)
  /\ [][\A p \in Slots :
          /\ (sw[p].pc = "labels" /\ sw'[p].pc = "create") => MarkerLabels = {}
          /\ (InLoop(p) /\ sw'[p].pc # "idle") => sw'[p].labelId = sw[p].labelId]_vars

\* The second sweep applies the label the first one created, having created
\* none itself.
C16_Witness ==
  /\ sw[1].no = 2 /\ sw[1].pc = "modify"
  /\ CountOp(1, "labels.create") = 0
  /\ Cardinality(MarkerLabels) = 1
  /\ \E m \in Msgs : HasMarker(m)

\* ------------------------------------------------- order within a sweep
\* The position of candidate id in the list the search returned (0: not in it).
Pos(p, id) ==
  LET at == {k \in 1..Len(sw[p].ids) : sw[p].ids[k] = id}
  IN IF at = {} THEN 0 ELSE CHOOSE k \in at : TRUE

\* The places in the log of the sweep's calls for one candidate.
CandidateOps == {"messages.get", "openai", "drafts.create", "messages.modify"}
CandidateCalls(p) ==
  {k \in 1..Len(sw[p].calls) : sw[p].calls[k].op \in CandidateOps}
CallsAt(p, op, id) ==
  {k \in 1..Len(sw[p].calls) : sw[p].calls[k] = [op |-> op, id |-> id]}

\* Candidate id is done with: skipped after its decision, or drafted and
\* marked and in the drafted list.
Terminal(p, id) ==
  \/ /\ CallsAt(p, "openai", id) # {}
     /\ CallsAt(p, "drafts.create", id) = {}
     /\ \A d \in sw[p].decision : d.id # id \/ NoReplyNeeded(Trim(d.text))
  \/ /\ id \in MessagesOf(sw[p].drafted)
     /\ id \in sw[p].marked /\ HasMarker(id)

\* C17: a sweep issues the calls of its candidates in the order of the
\* search result, the calls of one candidate only when every candidate before
\* it is done with, and its drafted list keeps that order.
C17_OneAtATimeInOrder ==
  \A p \in Slots :
    /\ \A j, k \in CandidateCalls(p) :
         /\ Pos(p, sw[p].calls[j].id) > 0
         /\ j < k => Pos(p, sw[p].calls[j].id) <= Pos(p, sw[p].calls[k].id)
    /\ \A k \in CandidateCalls(p) : \A n \in 1..Len(sw[p].ids) :
         n < Pos(p, sw[p].calls[k].id) => Terminal(p, sw[p].ids[n])
    /\ \A a, b \in 1..Len(sw[p].drafted) :
         a < b => Pos(p, sw[p].drafted[a].messageId) < Pos(p, sw[p].drafted[b].messageId)

\* A sweep answered with two drafted candidates.
C17_Witness ==
  /\ sw[1].pc = "done" /\ sw[1].resp.status = 200
  /\ Len(sw[1].resp.drafted) = 2
  /\ sw[1].resp.drafted[1].messageId = sw[1].ids[1]

\* C18: for each candidate of a sweep there is at most one decision call and
\* at most one draft-create call, the draft-create call comes after the
\* decision call and the label-apply call after the draft was created in this
\* sweep; a candidate whose decision was NoReplyNeeded is not marked, and a
\* message carries the marker only if a sweep created a draft for it.
C18_DecideDraftMark ==
  /\ \A p \in Slots : \A n \in 1..Len(sw[p].ids) :
       LET id == sw[p].ids[n]
       IN /\ Cardinality(CallsAt(p, "openai", id)) <= 1
          /\ Cardinality(CallsAt(p, "drafts.create", id)) <= 1
          /\ Cardinality(CallsAt(p, "messages.modify", id)) <= 1
          /\ \A k \in CallsAt(p, "drafts.create", id) :
               \E j \in CallsAt(p, "openai", id) : j < k
          /\ \A k \in CallsAt(p, "messages.modify", id) :
               /\ \E j \in CallsAt(p, "drafts.create", id) : j < k
               /\ \E d \in drafts : d.for = id /\ d.by = sw[p].no
          /\ id \in sw[p].marked =>
               \E d \in drafts : d.for = id /\ d.by = sw[p].no
          /\ \A d \in sw[p].decision :
               (d.id = id /\ Trim(d.text) \in {<<>>, NO_REPLY}) =>
                 id \notin sw[p].marked /\ ~HasMarker(id)
  /\ \A m \in Msgs : HasMarker(m) => DraftedBy(m) # {}

\* A sweep is applying the marker to a candidate it decided on and created a
\* draft for, after it skipped the candidate before.
C18_Witness ==
  /\ sw[1].pc = "modify" /\ sw[1].i = 2
  /\ sw[1].drafted = <<>>
  /\ \E d \in drafts : d.for = sw[1].call.id /\ d.by = sw[1].no
  /\ CallsAt(1, "openai", sw[1].ids[1]) # {}

\* -------------------------------------------------- overlapping sweeps
\* The drafts sweep number n created for message m.
DraftsOf(m, n) == {d \in drafts : d.for = m /\ d.by = n}

\* C19: with two sweeps in flight, each search still returns unmarked
\* messages only and each sweep creates at most one draft per message and at
\* most one label; all the same a state is reached (C19_Witness) in which one
\* message has the drafts of two sweeps and the mailbox two labels named
\* AI-Drafted: both sweeps searched, and listed the labels, before either
\* created or marked.
C19_SelectedWhileUnmarked ==
  /\ [](\A m \in Msgs : \A n \in 1..MaxSweeps : Cardinality(DraftsOf(m, n)) <= 1)
  /\ [](Cardinality(MarkerLabels) <= sweeps)
  /\ [][\A p \in Slots :
          (sw[p].pc = "list" /\ sw'[p].pc = "labels") =>
            \A k \in 1..Len(sw'[p].ids) : ~HasMarker(sw'[p].ids[k])]_vars

\* Two sweeps in flight at once, one message with a draft of each, and two
\* labels named AI-Drafted.
C19_Witness ==
  /\ \A p \in Slots : sw[p].pc \notin {"idle", "done"}
  /\ \A p \in Slots : CountOp(p, "labels.create") = 1
  /\ \E m \in Msgs : Cardinality(DraftedBy(m)) = 2
  /\ Cardinality(MarkerLabels) = 2

\* ------------------------------------------------------ the token state
\* C20: a held refresh credential is never lost.  A successful exchange
\* stores the refresh token it returned, or keeps the stored one when it
\* returned none; a callback that fails, and every other request, leaves the
\* token state as it is.
C20_RefreshCredentialKept ==
  [][/\ Held => Held'
     /\ (last = NoLast /\ last'.op = "callback") =>
          IF last'.status = 200
            THEN /\ savedTokens'.set
                 /\ savedTokens'.refresh_token =
                      (IF last'.refresh \notin {Undefined, ""} THEN last'.refresh
                       ELSE IF savedTokens.set THEN savedTokens.refresh_token
                       ELSE Undefined)
            ELSE savedTokens' = savedTokens
     /\ savedTokens' # savedTokens =>
          last = NoLast /\ last'.op = "callback" /\ last'.status = 200]_vars

\* An exchange that returned no refresh token has just succeeded, and the
\* token an earlier exchange returned is still the stored one.
C20_Witness ==
  /\ last.op = "callback" /\ last.status = 200 /\ last.refresh = Undefined
  /\ Held /\ savedTokens.refresh_token = "rt_new"

\* ------------------------------------------------------------ the frame
\* The ids the search of the sweep in slot p returned.
Selected(p) == {sw[p].ids[k] : k \in 1..Len(sw[p].ids)}

\* C21: a step of a sweep adds drafts only for messages its own search
\* returned, and changes a message only by adding its resolved label to one of
\* those; no step takes a label (the marker, UNREAD or any other) off a
\* message, and a message changes only by arriving or by such a step.
C21_SweepTouchesOwnCandidatesOnly ==
  [][/\ \A d \in drafts' \ drafts :
          \E p \in Slots :
            sw'[p] # sw[p] /\ d.by = sw[p].no /\ d.for \in Selected(p)
     /\ \A m \in Msgs :
          /\ Present(m) => mail[m].labelIds \subseteq mail'[m].labelIds
          /\ mail'[m] # mail[m] =>
               \/ ~Present(m)
               \/ \E p \in Slots :
                    /\ sw'[p] # sw[p] /\ m \in Selected(p)
                    /\ mail'[m] =
                         [mail[m] EXCEPT !.labelIds = @ \cup {sw[p].labelId}]]_vars

\* A sweep has drafted and marked a candidate that is still unread, and the
\* messages its search did not return are as they were at the start.
C21_Witness ==
  \E p \in Slots :
    /\ sw[p].pc = "done" /\ sw[p].resp.status = 200
    /\ \E m \in Selected(p) :
         /\ HasMarker(m) /\ "UNREAD" \in mail[m].labelIds
         /\ DraftsOf(m, sw[p].no) # {}
    /\ \A m \in DOMAIN StandingShape : m \notin Selected(p) /\ mail[m] = Standing(m)

\* ------------------------------------------------------------ progress
\* How many iterations of the candidate loop the sweep in slot p has begun:
\* each begins with the full fetch, the first call of a candidate.
Iterations(p) ==
  Cardinality({k \in 1..Len(sw[p].calls) :
                 /\ sw[p].calls[k].op = "messages.get"
                 /\ \A j \in 1..(k - 1) : sw[p].calls[j].id # sw[p].calls[k].id})
FullFetches(p) ==
  Cardinality({k \in 1..Len(sw[p].calls) :
                 /\ sw[p].calls[k].op = "messages.get"
                 /\ (k = Len(sw[p].calls) \/ sw[p].calls[k + 1].op = "openai")
                 /\ (k = 1 \/ sw[p].calls[k - 1].op # "openai"
                           \/ sw[p].calls[k - 1].id # sw[p].calls[k].id)})

\* C22: when every remote call returns, a /run-sweep request that has been
\* taken gets its response; the response is sent once (it is set on the step
\* that ends the handler and kept until the caller has it), and the loop has
\* begun no more iterations than the search returned candidates.
C22_SweepResponds ==
  /\ \A p \in {1} : (sw[p].pc # "idle") ~> (sw[p].pc = "done")
  /\ [](\A p \in Slots :
          /\ FullFetches(p) <= Len(sw[p].ids)
          /\ Iterations(p) = FullFetches(p)
          /\ sw[p].i <= Len(sw[p].ids) + 1
          /\ (sw[p].resp # NoResp) <=> (sw[p].pc = "done"))
  /\ [][\A p \in Slots :
          sw[p].pc = "done" => (sw'[p] = sw[p] \/ sw'[p] = IdleSweep)]_vars

\* A sweep over two candidates has answered after two iterations.
C22_Witness ==
  /\ sw[1].pc = "done" /\ sw[1].resp.status = 200
  /\ Len(sw[1].ids) = 2 /\ FullFetches(1) = 2

====
